---- MODULE Spec2Model ----
(***************************************************************************)
(* Model of restore_handler.py (EasyBackuper restore program): main(), the *)
(* multi-threaded directory copy copy_dir_with_progress and the script's   *)
(* __main__ block.                                                         *)
(*                                                                         *)
(* The file system is modelled as three trees, each a record               *)
(*   [exists |-> root directory exists, dirs |-> set of relative paths of  *)
(*    directories, files |-> function relative path -> content, NoFile     *)
(*    where there is no file]                                              *)
(*   fs.worlds   the tree rooted at  server_dir/worlds                     *)
(*   fs.staging  the tree rooted at  server_dir/temp_easybackuper/<world>  *)
(*   fs.tbackup  the tree rooted at                                        *)
(*               server_dir/temp_easybackuper_backup/<world>               *)
(* fs.temp_dir and fs.temp_backup_dir tell whether the two workspace       *)
(* directories temp_easybackuper and temp_easybackuper_backup exist.       *)
(* A relative path is a sequence of names.                                 *)
(***************************************************************************)
EXTENDS Integers, Sequences, FiniteSets, TLC

VARIABLES
    cfg,            \* configuration read by load_config (read-only in the run)
    archive,        \* contents of the backup archive: path -> content or NoFile
    serverRunning,  \* environment: bedrock_server is in the process table
    pc,             \* position of the main thread in main() / __main__
    sample,         \* result of the last process-table sample
    child,          \* child process the main thread is blocked on
    fs,             \* the three directory trees and the workspace directories
    cp,             \* frame of the running copy_dir_with_progress call
    threads,        \* worker threads of the running copy call
    ret,            \* return value of main() (-1: none yet)
    exitCode,       \* exit status of the process (-1: still running)
    restarts,       \* number of start commands launched
    backupSaved,    \* pre-backup archive file written to the backup folder
    hist            \* history: what has happened so far in the run

vars == <<cfg, archive, serverRunning, pc, sample, child, fs, cp, threads,
          ret, exitCode, restarts, backupSaved, hist>>

(***************************************************************************)
(* Bounds of the model.                                                    *)
(***************************************************************************)
\* largest Max_Workers value tried in a full run
MaxWorkers == 3
\* largest Max_Workers value tried in the stand-alone copy specification
MaxCopyWorkers == 10
\* largest number of files of a source tree in the stand-alone copy
MaxCopyFiles == 5

(***************************************************************************)
(* Paths.  world_name is the name "W"; "X" is another world.               *)
(***************************************************************************)
world_name == "W"

\* Regular files of the universe, in the order os.walk (top-down) reports
\* them: the files of a directory before those of its sub-directories.
FileOrder ==
    << <<"level.dat">>,
       <<"W", "level.dat">>,
       <<"W", "levelname.txt">>,
       <<"W", "db", "CURRENT">>,
       <<"W", "db", "MANIFEST">>,
       <<"X", "level.dat">> >>

\* Directories of the universe in os.walk (top-down) discovery order.
DirOrder == << <<"W">>, <<"X">>, <<"W", "db">> >>

\* Directories of the world in os.walk(topdown=False) order: children first.
BottomUpDirs == << <<"W", "db">>, <<"W">> >>

AllFiles == {FileOrder[i] : i \in 1..Len(FileOrder)}
AllDirs == {DirOrder[i] : i \in 1..Len(DirOrder)}

Parent(p) == SubSeq(p, 1, Len(p) - 1)

\* proper, non-empty prefixes of p: the directories that contain p
Ancestors(p) == {SubSeq(p, 1, k) : k \in 1..(Len(p) - 1)}

IsUnder(p, d) == Len(p) >= Len(d) /\ SubSeq(p, 1, Len(d)) = d

\* the elements of sequence s that satisfy membership in set S, order kept
RECURSIVE SelectIn(_, _)
SelectIn(s, S) ==
    IF s = <<>> THEN <<>>
    ELSE IF Head(s) \in S THEN <<Head(s)>> \o SelectIn(Tail(s), S)
         ELSE SelectIn(Tail(s), S)

RECURSIVE Flatten(_)
Flatten(ss) == IF ss = <<>> THEN <<>> ELSE Head(ss) \o Flatten(Tail(ss))

Range(s) == {s[i] : i \in 1..Len(s)}

NoFile == "none"

NoFiles == [p \in AllFiles |-> NoFile]

FilesOf(t) == {p \in AllFiles : t.files[p] # NoFile}

EmptyTree == [exists |-> FALSE, dirs |-> {}, files |-> NoFiles]

\* the tree holding the files of f (path -> content or NoFile) and the
\* directories that contain them
TreeOfFiles(f) ==
    [exists |-> TRUE,
     dirs |-> UNION {Ancestors(p) : p \in {q \in AllFiles : f[q] # NoFile}},
     files |-> f]

\* the files of set S, all with content c
FilesWith(S, c) == [p \in AllFiles |-> IF p \in S THEN c ELSE NoFile]

\* a directory path d exists in tree t (<<>> is the root)
DirExists(t, d) == IF d = <<>> THEN t.exists ELSE t.exists /\ d \in t.dirs

Max(a, b) == IF a >= b THEN a ELSE b
Min(a, b) == IF a <= b THEN a ELSE b

(***************************************************************************)
(* copy_dir_with_progress(src, dst, max_threads)                           *)
(***************************************************************************)
IdleCopy ==
    [pc |-> "idle", src |-> "worlds", dst |-> "worlds", max_threads |-> 1,
     files_to_copy |-> <<>>, dirs_to_create |-> <<>>, batches |-> <<>>,
     joined |-> 0]

\* the frame of a call that has just been entered
NewCopy(src, dst, max_threads) ==
    [IdleCopy EXCEPT !.pc = "begin", !.src = src, !.dst = dst,
                     !.max_threads = max_threads]

\* os.walk(src): the regular files below src, in discovery order
WalkFiles(t) == IF t.exists THEN SelectIn(FileOrder, FilesOf(t)) ELSE <<>>

\* os.walk(src): the directories below src, in discovery order
WalkDirs(t) == IF t.exists THEN SelectIn(DirOrder, t.dirs) ELSE <<>>

\* line 154: batch_size = max(1, len(files_to_copy) // max_threads)
BatchSize(n, max_threads) == Max(1, n \div max_threads)

\* mutant of Batches: the number of batches rounded down, so that a last,
\* shorter batch is dropped
BatchesDropTail(files, max_threads) ==
    LET n == Len(files)
        batch_size == BatchSize(n, max_threads)
        count == n \div batch_size
    IN  [k \in 1..count |->
            SubSeq(files, (k - 1) * batch_size + 1, Min(k * batch_size, n))]

\* line 155: [files[i:i + batch_size] for i in range(0, len(files), batch_size)]
Batches(files, max_threads) ==
    LET n == Len(files)
        batch_size == BatchSize(n, max_threads)
        count == (n + batch_size - 1) \div batch_size
    IN  [k \in 1..count |->
            SubSeq(files, (k - 1) * batch_size + 1, Min(k * batch_size, n))]

\* the main thread is inside a call of copy_dir_with_progress (line 322 or
\* line 459): the steps of the call's body are steps of the main thread
InCopyCall == pc \in {"pre_copy", "swap_copy"}

\* lines 121-123: create the destination root when it does not exist
CopyBegin ==
    /\ cp.pc = "begin"
    /\ InCopyCall
    /\ fs' = [fs EXCEPT ![cp.dst].exists = TRUE]
    /\ cp' = [cp EXCEPT !.pc = "walk"]
    /\ hist' = [hist EXCEPT !.copyCount = [p \in AllFiles |-> 0],
                            !.spawned = 0, !.copyFailed = FALSE]
    /\ UNCHANGED <<cfg, archive, serverRunning, pc, sample, child, threads,
                   ret, exitCode, restarts, backupSaved>>

\* lines 126-140: collect the files and the directories of the source tree
CopyWalk ==
    /\ cp.pc = "walk"
    /\ InCopyCall
    /\ cp' = [cp EXCEPT !.pc = "mkdirs",
                        !.files_to_copy = WalkFiles(fs[cp.src]),
                        !.dirs_to_create = WalkDirs(fs[cp.src])]
    /\ UNCHANGED <<cfg, archive, serverRunning, pc, sample, child, fs,
                   threads, ret, exitCode, restarts, backupSaved, hist>>

\* mutant of CopyMkdirs: no destination directory is created before the
\* workers start
CopyMkdirsNone ==
    /\ cp.pc = "mkdirs"
    /\ InCopyCall
    /\ cp' = [cp EXCEPT !.pc = "batch"]
    /\ UNCHANGED <<cfg, archive, serverRunning, pc, sample, child, fs, threads,
                   ret, exitCode, restarts, backupSaved, hist>>

\* lines 143-146: create every destination directory, in discovery order
CopyMkdirs ==
    /\ cp.pc = "mkdirs"
    /\ InCopyCall
    /\ fs' = [fs EXCEPT ![cp.dst].dirs = @ \cup Range(cp.dirs_to_create)]
    /\ cp' = [cp EXCEPT !.pc = "batch"]
    /\ UNCHANGED <<cfg, archive, serverRunning, pc, sample, child, threads,
                   ret, exitCode, restarts, backupSaved, hist>>

\* lines 154-158: split the file list into batches
CopyBatch ==
    /\ cp.pc = "batch"
    /\ InCopyCall
    /\ cp' = [cp EXCEPT !.pc = "spawn",
                        !.batches = Batches(cp.files_to_copy, cp.max_threads)]
    /\ threads' = <<>>
    /\ UNCHANGED <<cfg, archive, serverRunning, pc, sample, child, fs,
                   ret, exitCode, restarts, backupSaved, hist>>

\* lines 159-162: start one thread for the next batch, or leave the loop
CopySpawn ==
    /\ cp.pc = "spawn"
    /\ InCopyCall
    /\ IF Len(threads) < Len(cp.batches)
       THEN /\ threads' = Append(threads,
                    [batch |-> cp.batches[Len(threads) + 1], pos |-> 0])
            /\ hist' = [hist EXCEPT !.spawned = @ + 1]
            /\ cp' = cp
       ELSE /\ cp' = [cp EXCEPT !.pc = "join", !.joined = 0]
            /\ UNCHANGED <<threads, hist>>
    /\ UNCHANGED <<cfg, archive, serverRunning, pc, sample, child, fs,
                   ret, exitCode, restarts, backupSaved>>

\* lines 101-112: shutil.copy2(src_file, dst_file); any exception is logged
\* and swallowed.  ok = FALSE is a copy that fails for an outside reason.
\* shutil.copy2 succeeds: nothing outside interferes (ok), the source file
\* is there and the directory of the destination file exists
CanCopy(src, dst, p, ok) ==
    /\ ok
    /\ fs[src].exists /\ fs[src].files[p] # NoFile
    /\ DirExists(fs[dst], Parent(p))

\* mutant of CopyFile: the file is written under its bare name in the
\* destination root
CopyFileFlat(src, dst, p, ok) ==
    IF CanCopy(src, dst, p, ok) /\ <<p[Len(p)]>> \in AllFiles
    THEN [fs EXCEPT ![dst].files[<<p[Len(p)]>>] = fs[src].files[p]]
    ELSE fs

CopyFile(src, dst, p, ok) ==
    IF CanCopy(src, dst, p, ok)
    THEN [fs EXCEPT ![dst].files[p] = fs[src].files[p]]
    ELSE fs

\* mutant of CopyWorker: a copy that fails ends the worker's batch
CopyWorkerAbortsBatch(t) ==
    /\ t \in 1..Len(threads)
    /\ threads[t].pos < Len(threads[t].batch)
    /\ LET p == threads[t].batch[threads[t].pos + 1]
       IN  \E ok \in BOOLEAN :
             /\ fs' = CopyFile(cp.src, cp.dst, p, ok)
             /\ hist' = [hist EXCEPT
                   !.copyCount[p] = @ + 1,
                   !.copyFailed = @ \/ ~CanCopy(cp.src, cp.dst, p, ok)]
             /\ threads' = [threads EXCEPT ![t].pos =
                      IF CanCopy(cp.src, cp.dst, p, ok)
                      THEN @ + 1 ELSE Len(threads[t].batch)]
    /\ UNCHANGED <<cfg, archive, serverRunning, pc, sample, child, cp,
                   ret, exitCode, restarts, backupSaved>>

\* lines 149-151: worker thread t copies the next file of its batch
CopyWorker(t) ==
    /\ t \in 1..Len(threads)
    /\ threads[t].pos < Len(threads[t].batch)
    /\ LET p == threads[t].batch[threads[t].pos + 1]
       IN  \E ok \in BOOLEAN :
             /\ fs' = CopyFile(cp.src, cp.dst, p, ok)
             /\ hist' = [hist EXCEPT
                   !.copyCount[p] = @ + 1,
                   !.copyFailed = @ \/ ~CanCopy(cp.src, cp.dst, p, ok)]
    /\ threads' = [threads EXCEPT ![t].pos = @ + 1]
    /\ UNCHANGED <<cfg, archive, serverRunning, pc, sample, child, cp,
                   ret, exitCode, restarts, backupSaved>>

ThreadDone(t) == threads[t].pos = Len(threads[t].batch)

\* mutant of CopyJoin: join() returns without waiting for the thread
CopyJoinNoWait ==
    /\ cp.pc = "join"
    /\ InCopyCall
    /\ IF cp.joined < Len(threads)
       THEN cp' = [cp EXCEPT !.joined = @ + 1]
       ELSE cp' = [cp EXCEPT !.pc = "done"]
    /\ UNCHANGED <<cfg, archive, serverRunning, pc, sample, child, fs,
                   threads, ret, exitCode, restarts, backupSaved, hist>>

\* lines 165-166: thread.join() for the next thread returns once it is done;
\* after the last join the call returns
CopyJoin ==
    /\ cp.pc = "join"
    /\ InCopyCall
    /\ IF cp.joined < Len(threads)
       THEN /\ ThreadDone(cp.joined + 1)
            /\ cp' = [cp EXCEPT !.joined = @ + 1]
       ELSE cp' = [cp EXCEPT !.pc = "done"]
    /\ UNCHANGED <<cfg, archive, serverRunning, pc, sample, child, fs,
                   threads, ret, exitCode, restarts, backupSaved, hist>>

(***************************************************************************)
(* load_config() (lines 168-232) and the reads of use_7z in main()         *)
(***************************************************************************)
\* what load_config can find: no configuration file at any of the three
\* paths; a file that cannot be read as JSON; a file without the key
\* use_7z; a file that sets use_7z to false; a file that sets it to true
ConfigFiles == {"missing", "unreadable", "no_key", "false", "true"}

\* lines 189-192 and 196-199: the default configuration.  A dict is modelled
\* by whether it has the key use_7z and by the value under that key
default_config == [has_use_7z |-> TRUE, use_7z |-> FALSE]

\* lines 187-232: the dict load_config returns.  Without a file the defaults
\* are returned (lines 187-192); json.load raising is caught and the
\* defaults are returned (lines 229-232); otherwise the file's keys are
\* written over the defaults (line 206), so the key use_7z is always there
LoadConfig(file) ==
    IF file \in {"missing", "unreadable", "no_key"}
    THEN default_config
    ELSE [default_config EXCEPT !.use_7z = (file = "true")]

\* line 238: config = load_config(), the dict both phases read
config == LoadConfig(cfg.config_file)

\* mutant of PreBackupUse7z: the default of config.get is taken whatever
\* the dict holds
PreBackupUse7zDefault == TRUE

\* lines 325 and 327: config.get("use_7z", True)
PreBackupUse7z == IF config.has_use_7z THEN config.use_7z ELSE TRUE

\* line 389: config['use_7z'] (the key is there: line 247 has read it)
ExtractUse7z == config.use_7z

(***************************************************************************)
(* main(): WAIT_PROCESS (lines 262-292)                                    *)
(***************************************************************************)
\* lines 273-276 and 281-284: subprocess.Popen(process_cmd).  The call
\* raises when the command cannot be started; nothing in main() catches it.
PollStart ==
    /\ pc \in {"poll", "loop_poll"}
    /\ \E started \in BOOLEAN :
         IF started
         THEN /\ child' = "ps"
              /\ pc' = IF pc = "poll" THEN "read" ELSE "loop_read"
              /\ hist' = hist
         ELSE /\ pc' = "raised"
              /\ child' = child
              /\ hist' = [hist EXCEPT !.raisedIn = "WAIT_PROCESS",
                                      !.queryFailed = TRUE]
    /\ UNCHANGED <<cfg, archive, serverRunning, sample, fs, cp, threads,
                   ret, exitCode, restarts, backupSaved>>

\* mutant of AfterWait: the pre-restore backup is entered unconditionally
AfterWaitAlwaysBackup == "pre_setup"

\* lines 292-299 and 371-373: after the wait, the pre-restore backup is
\* entered when it is configured, the extraction otherwise
AfterWait == IF cfg.backup_old_world THEN "pre_setup" ELSE "ext_setup"

\* mutant of AfterSample: the program goes on whatever the sample shows
AfterSampleNoWait(out) == AfterWait

\* lines 278-291: with the name in the sample the program samples again
\* (after time.sleep(1) inside the loop), otherwise the wait is over
AfterSample(out) == IF out = "present" THEN "loop_poll" ELSE AfterWait

\* what one read of the process list can give.  The test of lines 278 and
\* 286 is a substring test on the whole output of tasklist or "ps aux": the
\* name is in the output when the server runs, and also when another entry
\* of the list holds it ("ps aux" prints full command lines, this program's
\* own --server-dir and --backup-file arguments among them).  A command that
\* fails gives output without the name; output that is not valid in the
\* expected encoding cannot be decoded
SampleOutcomes ==
    (IF serverRunning \/ cfg.name_elsewhere THEN {"present"} ELSE {"absent"})
        \cup {"failed", "undecodable"}

\* line 278 (first sample) and line 286 (samples of the loop):
\* process_name in process.stdout.read().decode(encoding)
PollRead ==
    /\ pc \in {"read", "loop_read"}
    /\ child = "ps"
    /\ child' = "none"
    /\ \E out \in SampleOutcomes :
         IF out = "undecodable"
         THEN /\ pc' = "raised"
              /\ sample' = sample
              /\ hist' = [hist EXCEPT !.raisedIn = "WAIT_PROCESS",
                                      !.queryFailed = TRUE]
         ELSE /\ sample' = out
              /\ pc' = AfterSample(out)
              /\ hist' = [hist EXCEPT
                             !.queryFailed = @ \/ (out = "failed"),
                             !.sawPresent = @ \/ (out = "present")]
    /\ UNCHANGED <<cfg, archive, serverRunning, fs, cp, threads,
                   ret, exitCode, restarts, backupSaved>>

\* environment: the server process ends
ServerStops ==
    /\ serverRunning
    /\ exitCode = -1
    /\ serverRunning' = FALSE
    /\ UNCHANGED <<cfg, archive, pc, sample, child, fs, cp, threads,
                   ret, exitCode, restarts, backupSaved, hist>>

(***************************************************************************)
(* main(): PRE_BACKUP (lines 294-371)                                      *)
(***************************************************************************)
\* lines 303-322: make the backup folder and a fresh temp_easybackuper_backup,
\* then call copy_dir_with_progress(worlds_dir, temp_world_backup_dir).
\* mkdir of the backup folder can raise (before anything was created); an
\* exception raised in the try block of lines 301-366 is logged by the
\* handler of lines 367-369 and main() goes on with line 373.
PreSetup ==
    /\ pc = "pre_setup"
    /\ \E raised \in BOOLEAN :
         IF raised
         THEN /\ pc' = "ext_setup"
              /\ hist' = [hist EXCEPT !.preFailed = "exception"]
              /\ UNCHANGED <<fs, cp>>
         ELSE /\ fs' = [fs EXCEPT !.tbackup = EmptyTree,
                                  !.temp_backup_dir = TRUE]
              /\ cp' = NewCopy("worlds", "tbackup", cfg.max_workers)
              /\ pc' = "pre_copy"
              /\ hist' = hist
    /\ UNCHANGED <<cfg, archive, serverRunning, sample, child, threads,
                   ret, exitCode, restarts, backupSaved>>

\* shutil.rmtree(temp_backup_dir, ignore_errors=True)
RemoveTempBackup(f) ==
    [f EXCEPT !.tbackup = EmptyTree, !.temp_backup_dir = FALSE]

\* lines 325-339 and 351-355: start the compression with the configured
\* backend.  Backend 7za: a missing executable is logged, the workspace
\* removed, and control falls to line 363.  Backend tar: subprocess.run
\* raises when tar cannot be started.
PreCompress ==
    /\ pc = "pre_copy"
    /\ cp.pc = "done"
    /\ cp' = IdleCopy
    /\ IF PreBackupUse7z
       THEN IF ~cfg.exe_exists
            THEN /\ fs' = RemoveTempBackup(fs)
                 /\ pc' = "pre_cleanup"
                 /\ hist' = [hist EXCEPT !.preFailed = "exe_missing",
                                         !.preBackend = "7z"]
                 /\ child' = child
            ELSE /\ child' = "compress"
                 /\ pc' = "pre_wait"
                 /\ hist' = [hist EXCEPT !.preBackend = "7z"]
                 /\ fs' = fs
       ELSE \E raised \in BOOLEAN :
              IF raised
              THEN /\ pc' = "ext_setup"
                   /\ hist' = [hist EXCEPT !.preFailed = "exception",
                                           !.preBackend = "tar"]
                   /\ UNCHANGED <<fs, child>>
              ELSE /\ child' = "compress"
                   /\ pc' = "pre_wait"
                   /\ hist' = [hist EXCEPT !.preBackend = "tar"]
                   /\ fs' = fs
    /\ UNCHANGED <<cfg, archive, serverRunning, sample, threads, ret,
                   exitCode, restarts, backupSaved>>

\* lines 340-350 and 356-360: the compression child has ended.  A failure
\* of 7za removes the workspace and returns 1 (lines 341-345); a failure of
\* tar is logged (line 357)
PreCompressReturn ==
    /\ pc = "pre_wait"
    /\ child = "compress"
    /\ child' = "none"
    /\ \E rc \in {0, 2} :
         IF rc = 0
         THEN /\ backupSaved' = TRUE
              /\ pc' = "pre_cleanup"
              /\ UNCHANGED <<fs, ret, hist>>
         ELSE /\ backupSaved' = backupSaved
              /\ hist' = [hist EXCEPT !.preFailed = "nonzero"]
              /\ IF PreBackupUse7z
                 THEN /\ fs' = RemoveTempBackup(fs)
                      /\ pc' = "returned"
                      /\ ret' = 1
                 ELSE /\ pc' = "pre_cleanup"
                      /\ UNCHANGED <<fs, ret>>
    /\ UNCHANGED <<cfg, archive, serverRunning, sample, cp, threads,
                   exitCode, restarts>>

\* lines 362-366: remove the pre-backup workspace
PreCleanup ==
    /\ pc = "pre_cleanup"
    /\ fs' = RemoveTempBackup(fs)
    /\ pc' = "ext_setup"
    /\ UNCHANGED <<cfg, archive, serverRunning, sample, child, cp, threads,
                   ret, exitCode, restarts, backupSaved, hist>>

(***************************************************************************)
(* main(): EXTRACT (lines 373-430)                                         *)
(***************************************************************************)
\* mutant of RemoveTemp: the staging workspace is left in place
KeepTemp(f) == f

\* shutil.rmtree(temp_dir, ignore_errors=True)
RemoveTemp(f) == [f EXCEPT !.staging = EmptyTree, !.temp_dir = FALSE]

\* lines 376-384: a fresh temp_easybackuper directory
ExtSetup ==
    /\ pc = "ext_setup"
    /\ fs' = [RemoveTemp(fs) EXCEPT !.temp_dir = TRUE]
    /\ pc' = "ext_launch"
    /\ UNCHANGED <<cfg, archive, serverRunning, sample, child, cp, threads,
                   ret, exitCode, restarts, backupSaved, hist>>

\* mutant of ExtractDst: the archive is extracted into the worlds directory
ExtractIntoWorlds == "worlds"

\* lines 392 and 417: temp_world_dir = temp_dir / world_name, the tree the
\* archive tool is told to extract into
ExtractDst == "staging"

\* lines 389-403 and 415-423: start the extraction with the configured
\* backend.  Backend 7za: a missing executable removes the workspace and
\* returns 1.  Backend tar: temp_world_dir is created first; subprocess.run
\* raises when tar cannot be started and nothing catches it.
ExtLaunch ==
    /\ pc = "ext_launch"
    /\ IF ExtractUse7z
       THEN IF ~cfg.exe_exists
            THEN /\ fs' = RemoveTemp(fs)
                 /\ pc' = "returned"
                 /\ ret' = 1
                 /\ hist' = [hist EXCEPT !.extFailed = "exe_missing",
                                         !.extBackend = "7z"]
                 /\ child' = child
            ELSE /\ child' = "extract"
                 /\ pc' = "ext_wait"
                 /\ hist' = [hist EXCEPT !.extBackend = "7z"]
                 /\ UNCHANGED <<fs, ret>>
       ELSE \E raised \in BOOLEAN :
              /\ fs' = [fs EXCEPT ![ExtractDst].exists = TRUE]
              /\ UNCHANGED <<ret>>
              /\ IF raised
                 THEN /\ pc' = "raised"
                      /\ hist' = [hist EXCEPT !.raisedIn = "EXTRACT",
                                              !.extBackend = "tar"]
                      /\ child' = child
                 ELSE /\ child' = "extract"
                      /\ pc' = "ext_wait"
                      /\ hist' = [hist EXCEPT !.extBackend = "tar"]
    /\ UNCHANGED <<cfg, archive, serverRunning, sample, cp, threads,
                   exitCode, restarts, backupSaved>>

\* lines 404-413 and 424-430: the extraction child has ended.  Exit status 0:
\* the archive's tree is in the extraction target.  Otherwise the workspace
\* is removed and main() returns 1.
ExtReturn ==
    /\ pc = "ext_wait"
    /\ child = "extract"
    /\ child' = "none"
    /\ \E rc \in {0, 2} :
         IF rc = 0
         THEN /\ fs' = [fs EXCEPT ![ExtractDst] = TreeOfFiles(archive)]
              /\ hist' = [hist EXCEPT !.extracted = TRUE]
              /\ pc' = "swap_check"
              /\ UNCHANGED <<ret>>
         ELSE /\ fs' = RemoveTemp(fs)
              /\ hist' = [hist EXCEPT !.extFailed = "nonzero"]
              /\ pc' = "returned"
              /\ ret' = 1
    /\ UNCHANGED <<cfg, archive, serverRunning, sample, cp, threads,
                   exitCode, restarts, backupSaved>>

(***************************************************************************)
(* main(): SWAP (lines 432-466)                                            *)
(***************************************************************************)
\* the files directly in directory d of tree t, in listing order
FilesIn(t, d) == SelectIn(FileOrder, {p \in FilesOf(t) : Parent(p) = d})

\* the sub-directories directly in directory d of tree t, in listing order
DirsIn(t, d) == SelectIn(DirOrder, {e \in t.dirs : Parent(e) = d})

\* one entry per file or directory removed by lines 438-447
UnlinkOps(ps) == [i \in 1..Len(ps) |-> [op |-> "unlink", path |-> ps[i]]]
RmdirOps(ds) == [i \in 1..Len(ds) |-> [op |-> "rmdir", path |-> ds[i]]]

\* lines 438-447: os.walk(current_world_dir, topdown=False) visits the
\* directories children first; in each, every file is unlinked and then every
\* sub-directory is removed
RECURSIVE DeleteOpsFrom(_, _)
DeleteOpsFrom(t, ds) ==
    IF ds = <<>> THEN <<>>
    ELSE (IF Head(ds) \in t.dirs
          THEN UnlinkOps(FilesIn(t, Head(ds))) \o RmdirOps(DirsIn(t, Head(ds)))
          ELSE <<>>)
         \o DeleteOpsFrom(t, Tail(ds))

DeleteOps(t) == DeleteOpsFrom(t, BottomUpDirs)

\* line 435: current_world_dir.exists()
WorldExists(t) == t.exists /\ <<world_name>> \in t.dirs

\* lines 434-437
SwapCheck ==
    /\ pc = "swap_check"
    /\ pc' = IF WorldExists(fs.worlds) THEN "swap_delete" ELSE "swap_copy_call"
    /\ UNCHANGED <<cfg, archive, serverRunning, sample, child, fs, cp,
                   threads, ret, exitCode, restarts, backupSaved, hist>>

\* the tree after one removal
ApplyDelete(t, o) ==
    IF o.op = "unlink"
    THEN [t EXCEPT !.files[o.path] = NoFile]
    ELSE [t EXCEPT !.dirs = @ \ {o.path}]

\* Path.rmdir() needs an empty directory
CanDelete(t, o) ==
    o.op = "rmdir" =>
        /\ \A p \in FilesOf(t) : ~IsUnder(p, o.path)
        /\ \A e \in t.dirs : e = o.path \/ ~IsUnder(e, o.path)

\* mutant of SwapDelete: the walk is left after its first removal
SwapDeleteOnce ==
    /\ pc = "swap_delete"
    /\ LET ops == DeleteOps(fs.worlds)
       IN  IF ops = <<>>
           THEN fs' = fs
           ELSE fs' = [fs EXCEPT !.worlds = ApplyDelete(@, Head(ops))]
    /\ pc' = "swap_copy_call"
    /\ UNCHANGED <<cfg, archive, serverRunning, sample, child, cp,
                   threads, ret, exitCode, restarts, backupSaved, hist>>

\* lines 438-449: the next removal of the walk, or the end of the walk.
\* os.chmod, unlink and rmdir raise on failure and nothing catches it.
SwapDelete ==
    /\ pc = "swap_delete"
    /\ LET ops == DeleteOps(fs.worlds)
       IN  IF ops = <<>>
           THEN /\ pc' = "swap_copy_call"
                /\ UNCHANGED <<fs, hist>>
           ELSE \E ok \in BOOLEAN :
                  IF ok /\ CanDelete(fs.worlds, Head(ops))
                  THEN /\ fs' = [fs EXCEPT !.worlds = ApplyDelete(@, Head(ops))]
                       /\ pc' = pc
                       /\ hist' = hist
                  ELSE /\ pc' = "raised"
                       /\ hist' = [hist EXCEPT !.raisedIn = "SWAP"]
                       /\ fs' = fs
    /\ UNCHANGED <<cfg, archive, serverRunning, sample, child, cp,
                   threads, ret, exitCode, restarts, backupSaved>>

\* lines 452-459: copy_dir_with_progress(temp_world_dir, worlds_dir)
SwapCopyCall ==
    /\ pc = "swap_copy_call"
    /\ cp' = NewCopy("staging", "worlds", cfg.max_workers)
    /\ pc' = "swap_copy"
    /\ UNCHANGED <<cfg, archive, serverRunning, sample, child, fs,
                   threads, ret, exitCode, restarts, backupSaved, hist>>

\* lines 460-468: the copy has returned; remove the staging workspace
Cleanup ==
    /\ pc = "swap_copy"
    /\ cp.pc = "done"
    /\ cp' = IdleCopy
    /\ fs' = RemoveTemp(fs)
    /\ pc' = "restart_check"
    /\ UNCHANGED <<cfg, archive, serverRunning, sample, child, threads, ret,
                   exitCode, restarts, backupSaved, hist>>

(***************************************************************************)
(* main(): RESTART_DECISION (lines 470-512)                                *)
(***************************************************************************)
\* lines 472-481 and 509-512
RestartCheck ==
    /\ pc = "restart_check"
    /\ IF cfg.restart_status
       THEN pc' = "restart_launch" /\ ret' = ret
       ELSE pc' = "returned" /\ ret' = 0
    /\ UNCHANGED <<cfg, archive, serverRunning, sample, child, fs, cp,
                   threads, exitCode, restarts, backupSaved, hist>>

\* mutant of RestartLaunch: a launch that raises is not caught
RestartLaunchEscalates ==
    /\ pc = "restart_launch"
    /\ \E launched \in BOOLEAN :
         IF launched
         THEN /\ restarts' = restarts + 1
              /\ pc' = "returned"
              /\ ret' = 0
              /\ hist' = hist
         ELSE /\ restarts' = restarts
              /\ pc' = "raised"
              /\ ret' = ret
              /\ hist' = [hist EXCEPT !.launchFailed = TRUE,
                                      !.raisedIn = "RESTART"]
    /\ UNCHANGED <<cfg, archive, serverRunning, sample, child, fs, cp,
                   threads, exitCode, backupSaved>>

\* lines 484-508 and 512: launch the start script without waiting for it
\* (subprocess.Popen, no wait or communicate); a launch that raises is
\* logged by the handler of lines 507-508; then return 0
RestartLaunch ==
    /\ pc = "restart_launch"
    /\ \E launched \in BOOLEAN :
         /\ restarts' = IF launched THEN restarts + 1 ELSE restarts
         /\ hist' = [hist EXCEPT !.launchFailed = ~launched]
    /\ pc' = "returned"
    /\ ret' = 0
    /\ UNCHANGED <<cfg, archive, serverRunning, sample, child, fs, cp,
                   threads, exitCode, backupSaved>>

(***************************************************************************)
(* __main__ (lines 540-549)                                                *)
(***************************************************************************)
AllThreadsDone == \A t \in 1..Len(threads) : ThreadDone(t)

\* line 541: exit_code = main() is assigned and the script ends there, so
\* the interpreter exits with status 0 whatever main() returned
ExitStatusAfterReturn(r) == 0

\* lines 548-549: an exception that escaped main() is logged and the script
\* ends there, so the interpreter exits with status 0
ExitStatusAfterException == 0

\* line 541: main() has returned
ExitNormal ==
    /\ pc = "returned"
    /\ AllThreadsDone
    /\ pc' = "exited"
    /\ exitCode' = ExitStatusAfterReturn(ret)
    /\ UNCHANGED <<cfg, archive, serverRunning, sample, child, fs, cp,
                   threads, ret, restarts, backupSaved, hist>>

\* lines 548-549: except Exception
ExitOnException ==
    /\ pc = "raised"
    /\ AllThreadsDone
    /\ pc' = "exited"
    /\ exitCode' = ExitStatusAfterException
    /\ UNCHANGED <<cfg, archive, serverRunning, sample, child, fs, cp,
                   threads, ret, restarts, backupSaved, hist>>

\* the user interrupts the program: KeyboardInterrupt is raised in the main
\* thread, passes the handlers of main() (they catch Exception only) and
\* reaches line 545.  Worker threads keep running.
Interrupt ==
    /\ pc \notin {"returned", "raised", "interrupted", "exited"}
    /\ pc' = "interrupted"
    /\ child' = "none"
    /\ hist' = [hist EXCEPT !.raisedIn = "INTERRUPT"]
    /\ UNCHANGED <<cfg, archive, serverRunning, sample, fs, cp, threads,
                   ret, exitCode, restarts, backupSaved>>

\* lines 545-547: sys.exit(130); the interpreter waits for the worker threads
ExitOnInterrupt ==
    /\ pc = "interrupted"
    /\ AllThreadsDone
    /\ pc' = "exited"
    /\ exitCode' = 130
    /\ UNCHANGED <<cfg, archive, serverRunning, sample, child, fs, cp,
                   threads, ret, restarts, backupSaved, hist>>

(***************************************************************************)
(* Initial states and specifications                                       *)
(***************************************************************************)
\* file sets of the archives tried: empty, one world file, a file at the top
\* level, a world with a sub-directory, a world and a second world
ArchiveFileSets ==
    { {},
      {<<"W", "level.dat">>},
      {<<"level.dat">>},
      {<<"W", "level.dat">>, <<"W", "levelname.txt">>, <<"W", "db", "CURRENT">>},
      {<<"W", "level.dat">>, <<"W", "db", "CURRENT">>, <<"X", "level.dat">>} }

\* file sets of the worlds directory tried: no world, the world alone, the
\* world and a second world
WorldFileSets ==
    { {},
      {<<"W", "level.dat">>, <<"W", "db", "MANIFEST">>},
      {<<"W", "level.dat">>, <<"W", "levelname.txt">>, <<"X", "level.dat">>} }

\* the configurations tried: a configuration file that sets use_7z to false
\* or to true; the 7za executable matters only with use_7z true
Configs ==
    {c \in [config_file : {"false", "true"}, exe_exists : BOOLEAN,
            backup_old_world : BOOLEAN,
            max_workers : 1..MaxWorkers, restart_status : BOOLEAN,
            name_elsewhere : BOOLEAN] :
        c.config_file = "true" \/ c.exe_exists}

NoHistory ==
    [extracted |-> FALSE, extFailed |-> "none", preFailed |-> "none",
     raisedIn |-> "none", queryFailed |-> FALSE, sawPresent |-> FALSE,
     copyCount |-> [p \in AllFiles |-> 0], spawned |-> 0,
     copyFailed |-> FALSE, launchFailed |-> FALSE,
     preBackend |-> "none", extBackend |-> "none", run |-> 1, world1 |-> EmptyTree,
     world0 |-> EmptyTree]

\* the state when main() reaches line 262
Init ==
    /\ cfg \in Configs
    /\ archive \in {FilesWith(S, "new") : S \in ArchiveFileSets}
    /\ serverRunning \in BOOLEAN
    /\ pc = "poll"
    /\ sample = "none"
    /\ child = "none"
    /\ \E S \in WorldFileSets :
         /\ fs = [worlds |-> TreeOfFiles(FilesWith(S, "old")),
                  staging |-> EmptyTree, tbackup |-> EmptyTree,
                  temp_dir |-> FALSE, temp_backup_dir |-> FALSE]
         /\ hist = [NoHistory EXCEPT
                        !.world0 = TreeOfFiles(FilesWith(S, "old"))]
    /\ cp = IdleCopy
    /\ threads = <<>>
    /\ ret = -1
    /\ exitCode = -1
    /\ restarts = 0
    /\ backupSaved = FALSE

CopyStep ==
    \/ CopyBegin
    \/ CopyWalk
    \/ CopyMkdirs
    \/ CopyBatch
    \/ CopySpawn
    \/ \E t \in 1..Len(threads) : CopyWorker(t)
    \/ CopyJoin

Next ==
    \/ PollStart
    \/ PollRead
    \/ ServerStops
    \/ PreSetup
    \/ PreCompress
    \/ PreCompressReturn
    \/ PreCleanup
    \/ ExtSetup
    \/ ExtLaunch
    \/ ExtReturn
    \/ SwapCheck
    \/ SwapDelete
    \/ SwapCopyCall
    \/ Cleanup
    \/ RestartCheck
    \/ RestartLaunch
    \/ CopyStep
    \/ ExitNormal
    \/ ExitOnException
    \/ Interrupt
    \/ ExitOnInterrupt

Spec == Init /\ [][Next]_vars

\* the source trees of the stand-alone copy: every set of at most
\* MaxCopyFiles files of the universe
CopySources == {S \in SUBSET AllFiles : Cardinality(S) <= MaxCopyFiles}

\* one call copy_dir_with_progress(src, dst, max_threads) on its own, from
\* a source tree in CopySources into an empty destination
InitCopy ==
    /\ cfg \in {c \in [config_file : {"false"}, exe_exists : {TRUE},
                       backup_old_world : {FALSE},
                       max_workers : 1..MaxCopyWorkers,
                       restart_status : {FALSE},
                       name_elsewhere : {FALSE}] : TRUE}
    /\ archive \in {FilesWith(S, "new") : S \in CopySources}
    /\ serverRunning = FALSE
    /\ pc = "swap_copy"
    /\ sample = "absent"
    /\ child = "none"
    /\ fs = [worlds |-> [EmptyTree EXCEPT !.exists = TRUE],
             staging |-> TreeOfFiles(archive), tbackup |-> EmptyTree,
             temp_dir |-> TRUE, temp_backup_dir |-> FALSE]
    /\ hist = [NoHistory EXCEPT !.extracted = TRUE,
                                !.world0 = [EmptyTree EXCEPT !.exists = TRUE]]
    /\ cp = NewCopy("staging", "worlds", cfg.max_workers)
    /\ threads = <<>>
    /\ ret = -1
    /\ exitCode = -1
    /\ restarts = 0
    /\ backupSaved = FALSE

NextCopy == CopyStep

SpecCopy == InitCopy /\ [][NextCopy]_vars

\* the program is started a second time, with the same arguments and the
\* same configuration, after a first run that restored the world without a
\* failed file copy; the server may have been started in between
SecondRun ==
    /\ pc = "exited"
    /\ hist.run = 1
    /\ ret = 0 /\ hist.raisedIn = "none" /\ ~hist.copyFailed
    /\ pc' = "poll"
    /\ sample' = "none"
    /\ serverRunning' \in BOOLEAN
    /\ cp' = IdleCopy
    /\ threads' = <<>>
    /\ ret' = -1
    /\ exitCode' = -1
    /\ restarts' = 0
    /\ backupSaved' = FALSE
    /\ hist' = [NoHistory EXCEPT !.run = 2, !.world0 = fs.worlds,
                                 !.world1 = fs.worlds]
    /\ UNCHANGED <<cfg, archive, child, fs>>

\* the first run starts with the server stopped
InitTwice == Init /\ ~serverRunning

NextTwice ==
    \/ PollStart
    \/ PollRead
    \/ ServerStops
    \/ PreSetup
    \/ PreCompress
    \/ PreCompressReturn
    \/ PreCleanup
    \/ ExtSetup
    \/ ExtLaunch
    \/ ExtReturn
    \/ SwapCheck
    \/ SwapDelete
    \/ SwapCopyCall
    \/ Cleanup
    \/ RestartCheck
    \/ RestartLaunch
    \/ CopyStep
    \/ ExitNormal
    \/ ExitOnException
    \/ SecondRun

\* two runs of the program in succession
SpecTwice == InitTwice /\ [][NextTwice]_vars

\* lines 321 and 456: global_config.get("max_workers", 4)
DefaultMaxWorkers == 4

\* runs over every outcome of load_config, with one archive and one existing
\* world.  Without a configuration that could be read, restore_config stays
\* empty (line 47): no pre-restore backup (line 296), no restart (line 473),
\* and the default number of workers
InitConfig ==
    /\ cfg \in {c \in [config_file : ConfigFiles, exe_exists : BOOLEAN,
                        backup_old_world : BOOLEAN,
                        max_workers : {1, DefaultMaxWorkers},
                        restart_status : BOOLEAN,
                        name_elsewhere : {FALSE}] :
                   IF c.config_file \in {"missing", "unreadable"}
                   THEN /\ ~c.backup_old_world
                        /\ ~c.restart_status
                        /\ c.max_workers = DefaultMaxWorkers
                   ELSE c.max_workers = 1}
    /\ archive = FilesWith({<<"W", "level.dat">>}, "new")
    /\ serverRunning \in BOOLEAN
    /\ pc = "poll"
    /\ sample = "none"
    /\ child = "none"
    /\ fs = [worlds |-> TreeOfFiles(FilesWith({<<"W", "level.dat">>}, "old")),
             staging |-> EmptyTree, tbackup |-> EmptyTree,
             temp_dir |-> FALSE, temp_backup_dir |-> FALSE]
    /\ hist = [NoHistory EXCEPT
                   !.world0 = TreeOfFiles(FilesWith({<<"W", "level.dat">>},
                                                    "old"))]
    /\ cp = IdleCopy
    /\ threads = <<>>
    /\ ret = -1
    /\ exitCode = -1
    /\ restarts = 0
    /\ backupSaved = FALSE

SpecConfig == InitConfig /\ [][Next]_vars

\* the steps of the main thread: main(), the body of the copy call it is in,
\* and the end of the script.  A step that waits for a child process
\* (PollRead, PreCompressReturn, ExtReturn) is taken when the child has ended
MainStep ==
    \/ PollStart
    \/ PollRead
    \/ PreSetup
    \/ PreCompress
    \/ PreCompressReturn
    \/ PreCleanup
    \/ ExtSetup
    \/ ExtLaunch
    \/ ExtReturn
    \/ SwapCheck
    \/ SwapDelete
    \/ SwapCopyCall
    \/ Cleanup
    \/ RestartCheck
    \/ RestartLaunch
    \/ CopyBegin
    \/ CopyWalk
    \/ CopyMkdirs
    \/ CopyBatch
    \/ CopySpawn
    \/ CopyJoin
    \/ ExitNormal
    \/ ExitOnException
    \/ ExitOnInterrupt

\* runs with a world and an archive of two files each, two workers, both
\* backends, the pre-restore backup and the restart on or off, the server
\* running or not, and the name in another entry of the process list or not
InitLive ==
    /\ cfg \in [config_file : {"false", "true"}, exe_exists : {TRUE},
                 backup_old_world : BOOLEAN, max_workers : {2},
                 restart_status : BOOLEAN, name_elsewhere : BOOLEAN]
    /\ archive = FilesWith({<<"W", "level.dat">>, <<"W", "db", "CURRENT">>},
                           "new")
    /\ serverRunning \in BOOLEAN
    /\ pc = "poll"
    /\ sample = "none"
    /\ child = "none"
    /\ LET S == {<<"W", "level.dat">>, <<"W", "db", "MANIFEST">>}
       IN  /\ fs = [worlds |-> TreeOfFiles(FilesWith(S, "old")),
                    staging |-> EmptyTree, tbackup |-> EmptyTree,
                    temp_dir |-> FALSE, temp_backup_dir |-> FALSE]
           /\ hist = [NoHistory EXCEPT
                          !.world0 = TreeOfFiles(FilesWith(S, "old"))]
    /\ cp = IdleCopy
    /\ threads = <<>>
    /\ ret = -1
    /\ exitCode = -1
    /\ restarts = 0
    /\ backupSaved = FALSE

\* the scheduling the claim of termination assumes: the server process ends
\* (ServerStops); the main thread takes its next step when it can, which for
\* a wait on a child process means the child ends; every started worker
\* thread gets to run.  The interrupt by the user is not forced
Fairness ==
    /\ WF_vars(ServerStops)
    /\ WF_vars(MainStep)
    /\ \A t \in 1..Len(FileOrder) : WF_vars(CopyWorker(t))

SpecLive == InitLive /\ [][Next]_vars /\ Fairness

(***************************************************************************)
(* Phases of the run, read off the position of the main thread             *)
(***************************************************************************)
Phase ==
    CASE pc \in {"poll", "read", "loop_poll", "loop_read"} -> "WAIT_PROCESS"
      [] pc \in {"pre_setup", "pre_copy", "pre_wait", "pre_cleanup"}
            -> "PRE_BACKUP"
      [] pc \in {"ext_setup", "ext_launch", "ext_wait"} -> "EXTRACT"
      [] pc \in {"swap_check", "swap_delete", "swap_copy_call", "swap_copy"}
            -> "SWAP"
      [] pc \in {"restart_check", "restart_launch"} -> "RESTART_DECISION"
      [] pc \in {"raised", "interrupted"} -> "ABORTED"
      [] OTHER -> IF hist.raisedIn # "none" THEN "ABORTED"
                  ELSE IF ret = 0 THEN "DONE" ELSE "FAILED"

\* the part of a worlds tree that is the world directory worlds/<world_name>
WorldPart(t) ==
    [dirs |-> {d \in t.dirs : IsUnder(d, <<world_name>>)},
     files |-> [p \in {q \in AllFiles : IsUnder(q, <<world_name>>)} |->
                    t.files[p]]]

SomeThreadAlive == \E t \in 1..Len(threads) : ~ThreadDone(t)

(***************************************************************************)
(* Claims                                                                  *)
(***************************************************************************)

\* C1: until the extraction into the staging directory has completed
\* successfully, no step of the run changes anything under
\* worlds/<world_name>; in particular the step in which the extraction
\* completes does not write there.
C1_WorldUntouchedUntilExtracted ==
    [][~hist.extracted => WorldPart(fs'.worlds) = WorldPart(fs.worlds)]_vars

\* C1 witness: the extraction has completed and the world directory has then
\* been changed by the deletion step.
C1_Witness ==
    /\ hist.extracted
    /\ pc = "swap_delete"
    /\ WorldPart(fs.worlds) # WorldPart(hist.world0)
    /\ fs.staging = TreeOfFiles(archive)

\* C2: once the EXTRACT phase has failed (7za selected and absent, or a
\* non-zero exit status of either backend), main() has returned 1, the staging
\* workspace is gone, the worlds tree is as it was at the start (SWAP was not
\* entered) and no start command has been launched.
C2_ExtractFailureIsFatal ==
    hist.extFailed # "none" =>
        /\ pc \in {"returned", "exited"}
        /\ ret = 1
        /\ ~fs.temp_dir
        /\ fs.staging = EmptyTree
        /\ fs.worlds = hist.world0
        /\ restarts = 0

\* C2 witness: the extraction child ended with a non-zero status in a run
\* where a world existed and a restart was configured.
C2_Witness ==
    /\ hist.extFailed = "nonzero"
    /\ pc = "exited"
    /\ cfg.restart_status
    /\ WorldExists(fs.worlds)

\* C3 (as claimed): when the pre-backup compression has failed (non-zero exit
\* status or 7za absent), a result of 1 can only come from a failed EXTRACT.
C3_AsClaimed ==
    (hist.preFailed \in {"nonzero", "exe_missing"} /\ pc = "returned" /\ ret = 1)
        => hist.extFailed # "none"

\* C4 (as claimed): when the run has ended by success, by a fatal EXTRACT
\* failure, after any pre-backup failure, or by an exception raised during
\* SWAP, neither workspace directory exists.
C4_AsClaimed ==
    (pc \in {"returned", "raised", "exited"} /\ hist.raisedIn \in {"none", "SWAP"})
        => (~fs.temp_dir /\ ~fs.temp_backup_dir)

\* C5 (as claimed): the exit status is 0 exactly when the restore succeeded,
\* 1 when main() returned 1 or an exception escaped it, 130 on interruption.
C5_AsClaimed ==
    pc = "exited" =>
        exitCode = (IF hist.raisedIn = "INTERRUPT" THEN 130
                    ELSE IF hist.raisedIn # "none" THEN 1
                    ELSE IF ret = 0 THEN 0 ELSE 1)

\* the phase changes the fixed order allows
PhaseOrder ==
    { <<"WAIT_PROCESS", "PRE_BACKUP">>, <<"WAIT_PROCESS", "EXTRACT">>,
      <<"PRE_BACKUP", "EXTRACT">>, <<"EXTRACT", "SWAP">>,
      <<"SWAP", "RESTART_DECISION">>, <<"RESTART_DECISION", "DONE">> }

\* C6: the run starts in WAIT_PROCESS; a phase is only ever followed by the
\* next one of WAIT_PROCESS, PRE_BACKUP, EXTRACT, SWAP, RESTART_DECISION, DONE
\* (or the run ends early); PRE_BACKUP is entered exactly when
\* backup_old_world_before_restore is set; and when a phase starts no child
\* process and no worker thread of an earlier phase is still running.
C6_PhasesInOrder ==
    /\ Phase = "WAIT_PROCESS"
    /\ [][Phase' # Phase =>
            \/ Phase' \in {"ABORTED", "FAILED"}
            \/ /\ <<Phase, Phase'>> \in PhaseOrder
               /\ Phase = "WAIT_PROCESS" =>
                    ((Phase' = "PRE_BACKUP") <=> cfg.backup_old_world)
               /\ child' = "none"
               /\ ~SomeThreadAlive'
               /\ cp'.pc = "idle"]_vars

\* C6 witness: a run with the pre-backup configured has gone through every
\* phase, both copies having used worker threads.
C6_Witness ==
    /\ Phase = "DONE"
    /\ cfg.backup_old_world
    /\ backupSaved
    /\ Len(threads) >= 2
    /\ FilesOf(hist.world0) # {}

\* C7: whenever the run is past WAIT_PROCESS, the last sample of the process
\* table did not show the server's name; a sample that shows it sends the
\* program back to sampling.
C7_NoWorkBeforeAbsentSample ==
    /\ Phase \notin {"WAIT_PROCESS", "ABORTED"} => sample \in {"absent", "failed"}
    /\ sample = "present" => Phase \in {"WAIT_PROCESS", "ABORTED"}
    /\ (fs.worlds # hist.world0 \/ fs.temp_dir \/ fs.temp_backup_dir)
            => sample \in {"absent", "failed"}

\* C7 witness: the server was seen running, then seen absent, and the
\* deletion of the world has begun.
C7_Witness ==
    /\ hist.sawPresent
    /\ sample = "absent"
    /\ pc = "swap_delete"
    /\ fs.worlds # hist.world0

\* C8 (as claimed): a failed query of the process table never ends the run in
\* WAIT_PROCESS.
C8_AsClaimed == hist.queryFailed => hist.raisedIn # "WAIT_PROCESS"

\* C9: the batches handed to the worker threads, concatenated, are the list
\* of the regular files of the source tree, each file once; thread k works on
\* batch k; no file is copied twice, and when the call returns every file of
\* the source tree has been copied exactly once.
C9_BatchesPartitionFiles ==
    /\ cp.pc \in {"spawn", "join", "done"} =>
          /\ Flatten(cp.batches) = WalkFiles(fs[cp.src])
          /\ Range(WalkFiles(fs[cp.src])) = FilesOf(fs[cp.src])
          /\ \A t \in 1..Len(threads) : threads[t].batch = cp.batches[t]
    /\ \A p \in AllFiles : hist.copyCount[p] <= 1
    /\ cp.pc = "done" =>
          \A p \in AllFiles :
              hist.copyCount[p] = IF p \in FilesOf(fs[cp.src]) THEN 1 ELSE 0

\* C9 witness: a call has returned whose file list was split into at least
\* two batches of different sizes.
C9_Witness ==
    /\ cp.pc = "done"
    /\ Len(cp.batches) >= 2
    /\ Len(cp.batches[Len(cp.batches)]) < Len(cp.batches[1])

\* C10 (as claimed): a copy call never starts more worker threads than
\* max_threads.
C10_AsClaimed == hist.spawned <= cp.max_threads

\* C11: when a copy call has returned and none of its file copies failed,
\* the destination (empty before the call) holds exactly the files of the
\* source tree, each at its source-relative path with the source's content,
\* for every max_threads in 1..MaxCopyWorkers (1, N and N+5 among them) and
\* every interleaving of the worker threads.
C11_CopyTreeCopiesEveryFile ==
    (cp.pc = "done" /\ ~hist.copyFailed) =>
        /\ fs[cp.dst].files = fs[cp.src].files
        /\ Cardinality(FilesOf(fs[cp.dst])) = Len(cp.files_to_copy)

\* C11 witness: a call with N = 3 files in two directories and
\* max_threads = N + 5 has returned, three threads having copied without a
\* failure.
C11_Witness ==
    /\ cp.pc = "done"
    /\ ~hist.copyFailed
    /\ Len(cp.files_to_copy) = 3
    /\ cp.max_threads = 8
    /\ Len(threads) = 3
    /\ fs[cp.src].dirs # {}
    /\ FilesOf(fs[cp.dst]) = FilesOf(fs[cp.src])

\* the files of the world directory worlds/<world_name> of tree t, as pairs
\* of the path relative to the world directory and the content
WorldRelFiles(t) ==
    {<<Tail(q), t.files[q]>> :
        q \in {r \in FilesOf(t) : IsUnder(r, <<world_name>>)}}

\* the files of the extracted staging tree, as pairs of the path relative to
\* temp_easybackuper/<world_name> and the content
ExtractedFiles ==
    {<<p, archive[p]>> : p \in {q \in AllFiles : archive[q] # NoFile}}

\* C12 (as claimed): after a SWAP in which no file copy failed, the tree at
\* worlds/<world_name> is the extracted staging tree: the same relative
\* paths with the same contents and nothing else.
C12_AsClaimed ==
    (pc = "restart_check" /\ ~hist.copyFailed)
        => WorldRelFiles(fs.worlds) = ExtractedFiles

\* C13: when a second run with the same archive, arguments and configuration
\* has restored the world (result 0, no failed file copy) after a first run
\* that did, the worlds tree is the one the first run left.
C13_SecondRunSameTree ==
    (hist.run = 2 /\ pc = "exited" /\ ret = 0 /\ hist.raisedIn = "none"
        /\ ~hist.copyFailed)
        => fs.worlds = hist.world1

\* C13 witness: the second run has ended; the first run had found an old
\* world with files and replaced it by the files of the archive.
C13_Witness ==
    /\ hist.run = 2 /\ pc = "exited" /\ ret = 0 /\ hist.raisedIn = "none"
    /\ ~hist.copyFailed
    /\ cfg.backup_old_world
    /\ FilesOf(fs.worlds) # {}
    /\ fs.worlds = hist.world1
    /\ WorldExists(fs.worlds)
    /\ \E p \in FilesOf(fs.worlds) : fs.worlds.files[p] = "new"

\* C14: at most one start command is launched, and none when the restart is
\* disabled; the launch step is reached only with the SWAP copy joined and the
\* staging workspace removed; after the launch step, whether the launch worked
\* or raised, main() has returned 0 and is not blocked on any child process.
C14_RestartNeverChangesOutcome ==
    /\ restarts <= 1
    /\ ~cfg.restart_status => (restarts = 0 /\ ~hist.launchFailed)
    /\ pc = "restart_launch" =>
          /\ hist.extracted
          /\ ~fs.temp_dir /\ fs.staging = EmptyTree
          /\ ~SomeThreadAlive /\ cp.pc = "idle"
          /\ restarts = 0
    /\ (restarts = 1 \/ hist.launchFailed) =>
          /\ pc \in {"returned", "exited"}
          /\ ret = 0
          /\ hist.raisedIn = "none"
          /\ child = "none"
          /\ ~(restarts = 1 /\ hist.launchFailed)

\* C14 witness: the launch of the start command raised and the run has ended
\* with result 0.
C14_Witness ==
    /\ hist.launchFailed
    /\ cfg.restart_status
    /\ pc = "exited"
    /\ ret = 0
    /\ restarts = 0

\* every directory the current copy call needs under its destination exists
DestDirsReady ==
    /\ fs[cp.dst].exists
    /\ Range(cp.dirs_to_create) \subseteq fs[cp.dst].dirs
    /\ \A i \in 1..Len(cp.files_to_copy) :
          DirExists(fs[cp.dst], Parent(cp.files_to_copy[i]))

\* C15: within one copy call a worker thread is started only when every
\* destination directory exists; each file copy a worker attempts goes into a
\* directory that exists; and a worker's step never creates a directory.
C15_DirsBeforeFiles ==
    [][/\ Len(threads') > Len(threads) => DestDirsReady
       /\ \A t \in 1..Len(threads) :
            (Len(threads') = Len(threads) /\ threads'[t].pos # threads[t].pos)
            => /\ DirExists(fs[cp.dst],
                            Parent(threads[t].batch[threads[t].pos + 1]))
               /\ fs'[cp.dst].dirs = fs[cp.dst].dirs
               /\ fs'[cp.dst].exists = fs[cp.dst].exists]_vars

\* C15 witness: a copy of a tree with sub-directories is over, done by at
\* least two workers, with a file copied into a sub-directory.
C15_Witness ==
    /\ cp.pc = "done"
    /\ Len(threads) >= 2
    /\ fs[cp.src].dirs # {}
    /\ DestDirsReady
    /\ \E q \in FilesOf(fs[cp.dst]) : Len(q) > 1 /\ hist.copyCount[q] = 1

\* C16: the copy call returns only when every worker it started has
\* finished, so main() is past a copy call (compressing the pre-backup copy,
\* removing the staging directory, or any later step) only with no worker
\* still copying.  A KeyboardInterrupt, which leaves the call without
\* returning from it, is the one exception.
C16_CopyIsForkJoinBarrier ==
    /\ cp.pc = "done" => ~SomeThreadAlive
    /\ pc \notin {"pre_copy", "swap_copy", "interrupted"} => ~SomeThreadAlive

\* C16 witness: the SWAP copy ran with at least two workers, has returned,
\* and the staging directory has been removed.
C16_Witness ==
    /\ pc = "restart_check"
    /\ Len(threads) >= 2
    /\ hist.spawned >= 2
    /\ ~fs.temp_dir
    /\ ~SomeThreadAlive

\* C17: a file copy that fails is skipped.  When the copy call returns,
\* every file of the walk has been attempted exactly once, failed copies or
\* not; an exception in SWAP never comes out of a running copy call; and a
\* result of 1 always has a failed archive tool as its cause, never a
\* skipped file.
C17_FailedCopyIsSkipped ==
    /\ cp.pc = "done" =>
          \A i \in 1..Len(cp.files_to_copy) :
             hist.copyCount[cp.files_to_copy[i]] = 1
    /\ hist.raisedIn = "SWAP" => cp.pc = "idle"
    /\ ret = 1 => \/ hist.extFailed # "none"
                  \/ (hist.preFailed = "nonzero" /\ PreBackupUse7z)

\* C17 witness: in the SWAP copy one file failed to copy and another was
\* copied, and the run ended with result 0.
C17_Witness ==
    /\ pc = "exited"
    /\ ret = 0
    /\ hist.raisedIn = "none"
    /\ hist.copyFailed
    /\ \E q \in AllFiles : /\ archive[q] # NoFile
                           /\ hist.copyCount[q] = 1
                           /\ fs.worlds.files[q] # archive[q]
    /\ \E q \in AllFiles : /\ archive[q] # NoFile
                           /\ hist.copyCount[q] = 1
                           /\ fs.worlds.files[q] = archive[q]

\* C18 (as claimed): the batches of a copy call are contiguous slices of the
\* file list of size ceil(totalFiles / max_threads), the last one possibly
\* smaller; no batch is empty; one worker is started per batch; and a source
\* tree with no file starts no worker.
C18_AsClaimed ==
    cp.pc \in {"join", "done"} =>
        LET n == Len(cp.files_to_copy)
            size == (n + cp.max_threads - 1) \div cp.max_threads
            count == Len(cp.batches)
        IN  /\ n = 0 => (count = 0 /\ hist.spawned = 0)
            /\ hist.spawned = count
            /\ Flatten(cp.batches) = cp.files_to_copy
            /\ \A k \in 1..count :
                  /\ Len(cp.batches[k]) >= 1
                  /\ k < count => Len(cp.batches[k]) = size
                  /\ k = count => Len(cp.batches[k]) <= size

\* C19 (as claimed): when the deletion step of SWAP is over, nothing of the
\* active world is left: no file and no directory below worlds/<world>, and
\* not the directory worlds/<world> itself.
C19_AsClaimed ==
    pc = "swap_copy_call" =>
        /\ \A q \in FilesOf(fs.worlds) : ~IsUnder(q, <<world_name>>)
        /\ \A e \in fs.worlds.dirs : ~IsUnder(e, <<world_name>>)
        /\ ~WorldExists(fs.worlds)

\* C20: within one run the pre-backup compression and the extraction use
\* the same archive backend, whatever load_config found: use_7z true, false,
\* absent from the file, an unreadable file, or no file.
C20_SameBackendInBothPhases ==
    (hist.preBackend # "none" /\ hist.extBackend # "none") =>
        hist.preBackend = hist.extBackend

\* C20 witness: with a configuration file that lacks the key use_7z, both
\* the pre-backup compression and the extraction have chosen tar.
C20_Witness ==
    /\ cfg.config_file = "no_key"
    /\ hist.preBackend = "tar"
    /\ hist.extBackend = "tar"
    /\ backupSaved
    /\ hist.extracted

\* C21 (as claimed): when the server process ends, every child process ends
\* and every worker thread gets to run, the run ends.
C21_AsClaimed == <>(pc = "exited")

\* C22 (as claimed): a run changes nothing under the worlds directory outside
\* worlds/<world>: every file and every directory that is not worlds/<world>
\* or below it is as it was when the run started.
C22_AsClaimed ==
    /\ \A q \in AllFiles :
          ~IsUnder(q, <<world_name>>) =>
              fs.worlds.files[q] = hist.world0.files[q]
    /\ \A e \in AllDirs :
          ~IsUnder(e, <<world_name>>) =>
              (e \in fs.worlds.dirs <=> e \in hist.world0.dirs)

====
